---- MODULE Spec2Model ----
(***************************************************************************)
(* DrugDatabaseChatbot: the query-result-to-visualization pipeline.        *)
(*                                                                         *)
(*   agent-app/db_tools.py        DrugAgeDBTools (read-only SQL boundary)   *)
(*   agent-app/app.py             update_user_context,                      *)
(*                                extract_markdown_table, the turn handler  *)
(*   agent-app/context_tools.py   update_user_context (no defaults)         *)
(*   agent-app/plotting_tools.py  PlottingTools                             *)
(*                                                                         *)
(* A Python str is modelled as the sequence of its characters (one-char    *)
(* strings); a message built from fixed parts is the sequence of its       *)
(* parts.                                                                  *)
(***************************************************************************)
EXTENDS Integers, Sequences, FiniteSets, TLC

VARIABLES
    engine,        \* DrugAgeDBTools.engine: "engine" or "None"
    connectable,   \* whether engine.connect() succeeds
    db,            \* the dataset: [exists |-> table drug_data exists, rows |-> its rows]
    query,         \* argument of the latest run_sql_query call
    ret,           \* value returned by the latest call (<<>> before any call)
    raised,        \* exception the latest call raised to its caller, or "none"
    opened,        \* the latest call opened a connection
    executed,      \* the latest call handed a statement to the database
    log,           \* logging records emitted by the latest call
    op,            \* the operation called latest, "none" before any call
    keywords,      \* what get_supported_keywords returned, "unset" if it has not
    user_settings, \* st.session_state.user_settings: a dict from setting name to str
    supported,     \* the supported species and value types, in iteration order
    prompt,        \* the user text of the latest turn
    resolver,      \* the module whose update_user_context the session calls
    final_markdown,\* the response text the turn handler works on
    table_string,  \* what extract_markdown_table returned for it
    chart,         \* what the chart step of the turn did
    messages,      \* st.session_state.messages: the history, a list of role/content
    effects,       \* what the handler did in the latest turn, in program order
    turn,          \* how the latest script run ended, "none" before any
    data_string,   \* the data_string of the latest PlottingTools call
    plot           \* what that call returned or raised

dbVars == <<engine, connectable, db, query, ret, raised, opened, executed, log, keywords>>
ctxVars == <<user_settings, supported, prompt, resolver>>
chartVars == <<final_markdown, table_string, chart, messages, effects, turn>>
plotVars == <<data_string, plot>>
vars == <<dbVars, ctxVars, chartVars, plotVars, op>>

None == "None"

(***************************************************************************)
(* str helpers                                                             *)
(***************************************************************************)

\* str.isspace for the characters str.strip() removes
IsSpace(c) == c \in {" ", "\t", "\n", "\r", "\f"}

UpperToLower ==
    [c \in {"A", "B", "C", "D", "E", "L", "M", "O", "P", "R", "S", "T", "X"} |->
        CASE c = "A" -> "a" [] c = "B" -> "b" [] c = "C" -> "c" [] c = "D" -> "d"
          [] c = "E" -> "e" [] c = "L" -> "l" [] c = "M" -> "m" [] c = "O" -> "o"
          [] c = "P" -> "p" [] c = "R" -> "r" [] c = "S" -> "s" [] c = "T" -> "t"
          [] c = "X" -> "x"]

\* str.lower()
Lower(s) == [i \in 1..Len(s) |-> IF s[i] \in DOMAIN UpperToLower THEN UpperToLower[s[i]] ELSE s[i]]

RECURSIVE LStrip(_)
LStrip(s) == IF s # <<>> /\ IsSpace(Head(s)) THEN LStrip(Tail(s)) ELSE s

RECURSIVE RStrip(_)
RStrip(s) == IF s # <<>> /\ IsSpace(s[Len(s)]) THEN RStrip(SubSeq(s, 1, Len(s) - 1)) ELSE s

\* str.strip()
Strip(s) == RStrip(LStrip(s))

\* str.startswith(p)
StartsWith(s, p) == Len(s) >= Len(p) /\ SubSeq(s, 1, Len(p)) = p

\* `p in s` for two str
Contains(s, p) == \E i \in 0..(Len(s) - Len(p)) : SubSeq(s, i + 1, i + Len(p)) = p

(***************************************************************************)
(* Query strings                                                           *)
(***************************************************************************)

kwSelect == <<"s", "e", "l", "e", "c", "t">>
SelectUpper == <<"S", "E", "L", "E", "C", "T">>
SelectMixed == <<"S", "e", "L", "e", "C", "t">>
Selectx == <<"s", "e", "l", "e", "c", "t", "x">>
Selec == <<"s", "e", "l", "e", "c">>
DropUpper == <<"D", "R", "O", "P">>
TailAll == <<" ", "*", " ", "f", "r", "o", "m", " ", "d", "r", "u", "g", "_", "d", "a", "t", "a">>
TailNone == <<" ", "*", " ", "f", "r", "o", "m", " ", "d", "r", "u", "g", "_", "d", "a", "t", "a", " ", "w", "h", "e", "r", "e", " ", "0">>
TailNoTable == <<" ", "*", " ", "f", "r", "o", "m", " ", "n", "o", "p", "e">>
TailMalformed == <<" ", "f", "r", "o", "m", " ", "f", "r", "o", "m">>
TailDrop == <<" ", "T", "A", "B", "L", "E", " ", "d", "r", "u", "g", "_", "d", "a", "t", "a", ";">>

SqlSelectAll == kwSelect \o TailAll
SqlSelectNone == kwSelect \o TailNone
SqlSelectNoTable == kwSelect \o TailNoTable
SqlDrop == Lower(DropUpper \o TailDrop)

LeadingSpace == {<<>>, <<" ">>, <<"\n", " ", "\t">>}
Keywords == {kwSelect, SelectUpper, SelectMixed, Selectx, Selec, DropUpper, <<>>}
Tails == {TailAll, TailNone, TailNoTable, TailMalformed, TailDrop, <<>>}

\* the query strings the model calls run_sql_query with
Queries == {w \o k \o t : w \in LeadingSpace, k \in Keywords, t \in Tails}

IsWordChar(c) == ~IsSpace(c) /\ c \notin {"*", ";", "(", ")", ","}

RECURSIVE WordPrefix(_)
WordPrefix(s) == IF s # <<>> /\ IsWordChar(Head(s)) THEN <<Head(s)>> \o WordPrefix(Tail(s)) ELSE <<>>

\* the leading non-whitespace token of a query, lower-cased
LeadingToken(q) == Lower(WordPrefix(LStrip(q)))

(***************************************************************************)
(* The dataset behind engine.connect() / connection.execute()               *)
(***************************************************************************)

MaxRows == 2

Row1 == <<"'Rapamycin'", "22.9">>
Row2 == <<"'Acarbose'", "22.0">>
AllRows == <<Row1, Row2, Row1, Row2>>

Datasets == {[exists |-> e, rows |-> IF e THEN SubSeq(AllRows, 1, n) ELSE <<>>] :
                e \in BOOLEAN, n \in 0..MaxRows}

\* connection.execute(text(query)) followed by result.fetchall(): the rows, or
\* the error the driver raises, and the dataset afterwards
SqlExecute(q, d) ==
    LET s == Lower(Strip(q)) IN
    CASE s = SqlSelectAll ->
            IF d.exists THEN [ok |-> TRUE, rows |-> d.rows, err |-> "", db |-> d]
            ELSE [ok |-> FALSE, rows |-> <<>>, err |-> "no such table: drug_data", db |-> d]
      [] s = SqlSelectNone ->
            IF d.exists THEN [ok |-> TRUE, rows |-> <<>>, err |-> "", db |-> d]
            ELSE [ok |-> FALSE, rows |-> <<>>, err |-> "no such table: drug_data", db |-> d]
      [] s = SqlSelectNoTable ->
            [ok |-> FALSE, rows |-> <<>>, err |-> "no such table: nope", db |-> d]
      [] s = SqlDrop ->
            IF d.exists
            THEN [ok |-> FALSE, rows |-> <<>>, err |-> "This result object does not return rows",
                  db |-> [exists |-> FALSE, rows |-> <<>>]]
            ELSE [ok |-> FALSE, rows |-> <<>>, err |-> "no such table: drug_data", db |-> d]
      [] OTHER ->
            [ok |-> FALSE, rows |-> <<>>, err |-> "syntax error", db |-> d]

(***************************************************************************)
(* str() of a list of tuples: the token sequence of its Python literal       *)
(***************************************************************************)

RECURSIVE JoinComma(_)
JoinComma(items) ==
    IF items = <<>> THEN <<>>
    ELSE IF Len(items) = 1 THEN Head(items)
    ELSE Head(items) \o <<",">> \o JoinComma(Tail(items))

\* str(tuple): a one-element tuple is written (x,)
TupleStr(t) ==
    <<"(">> \o JoinComma([i \in 1..Len(t) |-> <<t[i]>>])
            \o (IF Len(t) = 1 THEN <<",">> ELSE <<>>) \o <<")">>

\* str(list of tuples)
ListStr(l) == <<"[">> \o JoinComma([i \in 1..Len(l) |-> TupleStr(l[i])]) \o <<"]">>

(***************************************************************************)
(* DrugAgeDBTools.run_sql_query                                             *)
(***************************************************************************)

MsgNotInitialized == <<"Error: Database connection not initialized.">>
MsgPolicy == <<"Error: Only SELECT queries are allowed for security reasons.">>
MsgNoResults == <<"Query executed successfully, but returned no results.">>
MsgExecError(e) == <<"Error executing query: ", e>>

RejectedByPolicy_NoCheck(q) == FALSE

\* the security check: not query.strip().lower().startswith('select')
RejectedByPolicy(q) == ~StartsWith(Lower(Strip(q)), kwSelect)

NoRowsResult_AsError(q) == MsgExecError("no results")

\* the value returned for an empty fetchall()
NoRowsResult(q) == MsgNoResults

ConnectFailure_Propagates(q, d) ==
    [ret |-> <<>>, raised |-> "OperationalError", opened |-> FALSE, executed |-> FALSE,
     log |-> <<>>, db |-> d]

\* engine.connect() raising inside the try block
ConnectFailure(q, d) ==
    [ret |-> MsgExecError("unable to open database file"), raised |-> "none",
     opened |-> FALSE, executed |-> FALSE,
     log |-> <<[level |-> "ERROR", msg |-> <<"Query failed: ", q, " | Error: ",
                                              "unable to open database file">>]>>,
     db |-> d]

\* the whole call: what it returns, raises, logs and does to the dataset
run_sql_query(eng, conn, d, q) ==
    IF eng = None THEN
        [ret |-> MsgNotInitialized, raised |-> "none", opened |-> FALSE,
         executed |-> FALSE, log |-> <<>>, db |-> d]
    ELSE IF RejectedByPolicy(q) THEN
        [ret |-> MsgPolicy, raised |-> "none", opened |-> FALSE,
         executed |-> FALSE, log |-> <<>>, db |-> d]
    ELSE IF ~conn THEN ConnectFailure(q, d)
    ELSE
        LET r == SqlExecute(q, d)
            executing == [level |-> "INFO", msg |-> <<"Executing query: ", q>>]
        IN  IF ~r.ok THEN
                [ret |-> MsgExecError(r.err), raised |-> "none", opened |-> TRUE,
                 executed |-> TRUE,
                 log |-> <<executing,
                           [level |-> "ERROR",
                            msg |-> <<"Query failed: ", q, " | Error: ", r.err>>]>>,
                 db |-> r.db]
            ELSE IF r.rows = <<>> THEN
                [ret |-> NoRowsResult(q), raised |-> "none", opened |-> TRUE,
                 executed |-> TRUE, log |-> <<executing>>, db |-> r.db]
            ELSE
                [ret |-> ListStr(r.rows), raised |-> "none", opened |-> TRUE,
                 executed |-> TRUE,
                 log |-> <<executing,
                           [level |-> "INFO",
                            msg |-> <<"Query returned ", Len(r.rows), " rows.">>]>>,
                 db |-> r.db]

(***************************************************************************)
(* DrugAgeDBTools.get_unique_values, as app.py calls it                     *)
(***************************************************************************)

\* the attributes a DrugAgeDBTools instance has: the two methods the class
\* defines and the field __init__ sets
DrugAgeDBToolsAttrs == {"__init__", "run_sql_query", "engine"}

\* db_tool.<name>(arg): Python raises AttributeError before any call is made
\* when the instance has no such attribute
CallMethod(name, arg, eng, conn, d) ==
    IF name \notin DrugAgeDBToolsAttrs THEN
        [ret |-> <<>>, raised |-> "AttributeError", opened |-> FALSE,
         executed |-> FALSE, log |-> <<>>, db |-> d]
    ELSE run_sql_query(eng, conn, d, arg)

Columns == {"species", "value_type", "compound_name"}

\* get_supported_keywords: the two lookups in order; an exception of the first
\* ends the function
get_supported_keywords(eng, conn, d) ==
    LET s == CallMethod("get_unique_values", "species", eng, conn, d) IN
    IF s.raised # "none" THEN [keywords |-> "unset", raised |-> s.raised, opened |-> s.opened]
    ELSE LET v == CallMethod("get_unique_values", "value_type", eng, conn, s.db) IN
         IF v.raised # "none"
         THEN [keywords |-> "unset", raised |-> v.raised, opened |-> s.opened \/ v.opened]
         ELSE [keywords |-> [species |-> s.ret, value_type |-> v.ret], raised |-> "none",
               opened |-> s.opened \/ v.opened]

\* Python's None where a str may stand
NoStr == [isNone |-> TRUE, str |-> <<>>]
Str(x) == [isNone |-> FALSE, str |-> x]

\* no response text is being handled
ChartIdle ==
    /\ final_markdown = <<>>
    /\ table_string = NoStr
    /\ chart = [step |-> "none"]
    /\ messages = <<>>
    /\ effects = <<>>
    /\ turn = "none"

\* no PlottingTools call has been made
PlotIdle ==
    /\ data_string = <<>>
    /\ plot = [kind |-> "none"]

\* the session context is not in use
CtxIdle ==
    /\ user_settings = <<>>
    /\ supported = <<>>
    /\ prompt = <<>>
    /\ resolver = "none"

\* DrugAgeDBTools.__init__: the engine exists iff the database file was found
InitDB ==
    /\ engine \in {None, "engine"}
    /\ connectable \in BOOLEAN
    /\ db \in Datasets
    /\ (engine = None => ~connectable)
    /\ query = <<>>
    /\ ret = <<>>
    /\ raised = "none"
    /\ opened = FALSE
    /\ executed = FALSE
    /\ log = <<>>
    /\ op = "none"
    /\ keywords = "unset"
    /\ CtxIdle
    /\ ChartIdle
    /\ PlotIdle

RunSqlQuery ==
    \E q \in Queries :
        LET o == run_sql_query(engine, connectable, db, q) IN
        /\ op' = "run_sql_query"
        /\ query' = q
        /\ ret' = o.ret
        /\ raised' = o.raised
        /\ opened' = o.opened
        /\ executed' = o.executed
        /\ log' = o.log
        /\ db' = o.db
        /\ UNCHANGED <<engine, connectable, keywords, ctxVars, chartVars, plotVars>>

GetUniqueValues ==
    \E c \in Columns :
        LET o == CallMethod("get_unique_values", c, engine, connectable, db) IN
        /\ op' = "get_unique_values"
        /\ query' = c
        /\ ret' = o.ret
        /\ raised' = o.raised
        /\ opened' = o.opened
        /\ executed' = o.executed
        /\ log' = o.log
        /\ db' = o.db
        /\ UNCHANGED <<engine, connectable, keywords, ctxVars, chartVars, plotVars>>

GetSupportedKeywords ==
    LET o == get_supported_keywords(engine, connectable, db) IN
    /\ op' = "get_supported_keywords"
    /\ query' = <<>>
    /\ ret' = <<>>
    /\ raised' = o.raised
    /\ opened' = o.opened
    /\ executed' = FALSE
    /\ log' = <<>>
    /\ keywords' = o.keywords
    /\ UNCHANGED <<engine, connectable, db, ctxVars, chartVars, plotVars>>

NextDB == RunSqlQuery \/ GetUniqueValues \/ GetSupportedKeywords

SpecDB == InitDB /\ [][NextDB]_vars

(***************************************************************************)
(* Claims about run_sql_query and get_unique_values (checked under SpecDB)  *)
(***************************************************************************)

Called == op = "run_sql_query"

\* the query was accepted by the policy and its execution failed, with the
\* message of the underlying error
ExecutionFailure(q, conn, d) ==
    IF ~conn THEN "unable to open database file"
    ELSE IF ~SqlExecute(q, d).ok THEN SqlExecute(q, d).err
    ELSE "none"

\* a caller tells a failure from the text: every failure starts with "Error"
IsFailureText(r) ==
    r # <<>> /\ Head(r) \in {Head(MsgNotInitialized), Head(MsgPolicy), "Error executing query: "}

\* C1 as stated: every call whose leading token, lower-cased, is not `select`
\* returns the policy-violation error, opens no connection, executes no
\* statement and leaves the dataset unchanged.
C1_AsStated ==
    [][(op' = "run_sql_query" /\ LeadingToken(query') # kwSelect)
          => (ret' = MsgPolicy /\ ~opened' /\ ~executed' /\ db' = db)]_vars

\* C1 amended: every call whose leading token, lower-cased, does not begin with
\* the letters `select` returns without raising, opens no connection, executes
\* no statement and leaves the dataset unchanged; it returns the
\* policy-violation error when the engine was initialised and the
\* connection-not-initialized error when it was not.
C1_NonSelectNeverTouchesDataset ==
    [][(op' = "run_sql_query" /\ ~StartsWith(LeadingToken(query'), kwSelect))
          => /\ ret' = (IF engine = None THEN MsgNotInitialized ELSE MsgPolicy)
             /\ raised' = "none"
             /\ ~opened' /\ ~executed' /\ log' = <<>>
             /\ db' = db]_vars

C1_Witness ==
    /\ Called /\ query = DropUpper \o TailDrop
    /\ engine # None /\ connectable /\ db.exists /\ db.rows # <<>>
    /\ ret = MsgPolicy

C3_NeverRaises ==
    [][op' = "run_sql_query"
          => /\ raised' = "none" /\ ret' # <<>>
             /\ (engine # None /\ StartsWith(LeadingToken(query'), kwSelect)
                   /\ ExecutionFailure(query', connectable, db) # "none")
                  => ret' = <<"Error executing query: ",
                              ExecutionFailure(query', connectable, db)>>
             /\ IsFailureText(ret') \/ ret' = MsgNoResults
                   \/ (ret' = ListStr(SqlExecute(query', db).rows)
                        /\ SqlExecute(query', db).ok)]_vars

C3_Witness ==
    /\ Called /\ engine # None /\ ~connectable
    /\ query = kwSelect \o TailAll
    /\ ret = MsgExecError("unable to open database file")

\* C4 as stated: get_unique_values raises nothing when called with `species`
\* or `value_type`, and the keyword lookup that calls it for both columns
\* completes without raising.
C4_AsStated ==
    /\ (op = "get_unique_values" /\ query \in {"species", "value_type"}) => raised = "none"
    /\ op = "get_supported_keywords" => (raised = "none" /\ keywords # "unset")

(***************************************************************************)
(* update_user_context (app.py and context_tools.py)                        *)
(***************************************************************************)

Mice == <<"m", "i", "c", "e">>
Average == <<"a", "v", "e", "r", "a", "g", "e">>
Rat == <<"r", "a", "t">>
Rats == <<"r", "a", "t", "s">>
Max == <<"m", "a", "x">>

\* a dict with d[k] = v assigned
DictSet(d, k, v) == (k :> v) @@ d

EnsureDefaults_Overwrite(settings) ==
    DictSet(DictSet(settings, "species", Mice), "value_type", Average)

EnsureDefaults_Skip(settings) == settings

\* app.py: the defaults, inserted only for a key that is absent
EnsureDefaults(settings) ==
    LET s1 == IF "species" \notin DOMAIN settings
              THEN DictSet(settings, "species", Mice) ELSE settings
    IN  IF "value_type" \notin DOMAIN s1 THEN DictSet(s1, "value_type", Average) ELSE s1

RECURSIVE FirstMatch_NoBreak(_, _)
FirstMatch_NoBreak(candidates, text) ==
    IF candidates = <<>> THEN 0
    ELSE IF Contains(text, candidates[Len(candidates)]) THEN Len(candidates)
    ELSE FirstMatch_NoBreak(SubSeq(candidates, 1, Len(candidates) - 1), text)

\* for s in candidates: if s in text: ...; break -- the index of the value the
\* loop assigns, 0 when the loop ends without a match
RECURSIVE FirstMatch(_, _)
FirstMatch(candidates, text) ==
    IF candidates = <<>> THEN 0
    ELSE IF Contains(text, Head(candidates)) THEN 1
    ELSE LET r == FirstMatch(Tail(candidates), text) IN IF r = 0 THEN 0 ELSE r + 1

\* the two keyword loops, shared by both modules
MatchKeywords(p, supported_species, supported_value_types, settings) ==
    LET lower_prompt == Lower(p)
        i == FirstMatch(supported_species, lower_prompt)
        s1 == IF i # 0 THEN DictSet(settings, "species", supported_species[i]) ELSE settings
        j == FirstMatch(supported_value_types, lower_prompt)
    IN  IF j # 0 THEN DictSet(s1, "value_type", supported_value_types[j]) ELSE s1

\* app.py update_user_context
update_user_context(p, supported_species, supported_value_types, settings) ==
    MatchKeywords(p, supported_species, supported_value_types, EnsureDefaults(settings))

\* context_tools.py update_user_context: no defaults
context_tools_update_user_context(p, supported_species, supported_value_types, settings) ==
    MatchKeywords(p, supported_species, supported_value_types, settings)

MaxWords == 2

Words == {Mice, <<"R", "a", "t", "s">>, Max, <<"A", "v", "e", "r", "a", "g", "e">>, <<"x", " ">>}

RECURSIVE Texts(_)
Texts(n) == IF n = 0 THEN {<<>>} ELSE Texts(n - 1) \cup {t \o w : t \in Texts(n - 1), w \in Words}

\* the user texts of the model
Prompts == Texts(MaxWords)

\* the keyword lists get_supported_keywords may hand over (lower-cased)
SupportedChoices ==
    { [species |-> <<Rat, Rats>>, value_type |-> <<Average, Max>>],
      [species |-> <<Rats, Rat, Mice>>, value_type |-> <<Max>>],
      [species |-> <<Mice>>, value_type |-> <<>>],
      [species |-> <<>>, value_type |-> <<Max, Average>>] }

\* the other components are not in use
DBIdle ==
    /\ engine = None /\ connectable = FALSE /\ db = [exists |-> FALSE, rows |-> <<>>]
    /\ query = <<>> /\ ret = <<>> /\ raised = "none" /\ opened = FALSE
    /\ executed = FALSE /\ log = <<>> /\ keywords = "unset"

\* app.py: st.session_state.user_settings = {}
InitCtx ==
    /\ user_settings = <<>>
    /\ supported \in SupportedChoices
    /\ prompt = <<>>
    /\ resolver \in {"app", "context_tools"}
    /\ op = "none"
    /\ DBIdle
    /\ ChartIdle
    /\ PlotIdle

\* a turn of a session whose resolver is app.py's function
Resolve ==
    /\ resolver = "app"
    /\ \E p \in Prompts :
        /\ prompt' = p
        /\ user_settings' =
              update_user_context(p, supported.species, supported.value_type, user_settings)
    /\ op' = "resolve"
    /\ UNCHANGED <<supported, resolver, dbVars, chartVars, plotVars>>

\* a turn of a session whose resolver is context_tools.py's function
ResolveContextTools ==
    /\ resolver = "context_tools"
    /\ \E p \in Prompts :
        /\ prompt' = p
        /\ user_settings' =
              context_tools_update_user_context(p, supported.species,
                                                supported.value_type, user_settings)
    /\ op' = "resolve"
    /\ UNCHANGED <<supported, resolver, dbVars, chartVars, plotVars>>

NextCtx == Resolve \/ ResolveContextTools

SpecCtx == InitCtx /\ [][NextCtx]_vars

(***************************************************************************)
(* Claims about update_user_context (checked under SpecCtx)                 *)
(***************************************************************************)

\* text p, lower-cased, contains the i-th value of list l and none before it
IsFirstOccurring(l, i, p) ==
    /\ i \in 1..Len(l)
    /\ Contains(Lower(p), l[i])
    /\ \A j \in 1..(i - 1) : ~Contains(Lower(p), l[j])

Matches(l, p) == \E i \in 1..Len(l) : Contains(Lower(p), l[i])

DefaultOf(k) == IF k = "species" THEN Mice ELSE Average

\* C5: a call whose text contains no supported species and no supported
\* value type keeps every entry of the context, adds nothing but a missing
\* `species` as "mice" and a missing `value_type` as "average" (app.py's
\* function adds both, context_tools.py's adds neither), and a second call
\* with the same text changes nothing.
C5_NoMatchLeavesContext ==
    [][(op' = "resolve" /\ ~Matches(supported.species, prompt')
                        /\ ~Matches(supported.value_type, prompt'))
          => /\ \A k \in DOMAIN user_settings :
                    k \in DOMAIN user_settings' /\ user_settings'[k] = user_settings[k]
             /\ \A k \in DOMAIN user_settings' \ DOMAIN user_settings :
                    k \in {"species", "value_type"} /\ user_settings'[k] = DefaultOf(k)
             /\ resolver = "app" => DOMAIN user_settings' = {"species", "value_type"}
             /\ resolver = "context_tools" => user_settings' = user_settings
             /\ resolver = "app"
                  => update_user_context(prompt', supported.species, supported.value_type,
                                         user_settings') = user_settings'
             /\ resolver = "context_tools"
                  => context_tools_update_user_context(prompt', supported.species,
                        supported.value_type, user_settings') = user_settings']_vars

\* an unsupported species ("rats" where only "mice" is supported) after a
\* turn that had set nothing: species is the default
C5_Witness ==
    /\ op = "resolve" /\ resolver = "app"
    /\ supported.species = <<Mice>>
    /\ prompt = <<"R", "a", "t", "s">>
    /\ user_settings = ("species" :> Mice) @@ ("value_type" :> Average)

\* C6: in a session of app.py, from the first call on both settings are
\* present, each is its default or a supported value, no entry is ever removed,
\* and an entry changes only in a turn whose text contains a supported
\* keyword of that setting.
C6_SettingsPersist ==
    /\ []((resolver = "app" /\ op = "resolve")
            => /\ DOMAIN user_settings = {"species", "value_type"}
               /\ \/ user_settings["species"] = Mice
                  \/ \E i \in 1..Len(supported.species) :
                         user_settings["species"] = supported.species[i]
               /\ \/ user_settings["value_type"] = Average
                  \/ \E i \in 1..Len(supported.value_type) :
                         user_settings["value_type"] = supported.value_type[i])
    /\ [][resolver = "app"
            => \A k \in DOMAIN user_settings :
                  /\ k \in DOMAIN user_settings'
                  /\ user_settings'[k] # user_settings[k] => Matches(supported[k], prompt')]_vars

\* a later turn without any keyword, after a turn that chose a species
C6_Witness ==
    /\ op = "resolve" /\ resolver = "app"
    /\ supported.species = <<Rat, Rats>>
    /\ prompt = <<"x", " ">>
    /\ user_settings = ("species" :> Rat) @@ ("value_type" :> Max)

\* C7: when the lower-cased text contains a supported species, species
\* becomes the first such value in the order of the supported list, and
\* value_type is what it would be without the species list; the same holds
\* with the two settings exchanged.
C7_FirstMatchWins ==
    [][op' = "resolve"
          => /\ \A i \in 1..Len(supported.species) :
                    IsFirstOccurring(supported.species, i, prompt')
                       => user_settings'["species"] = supported.species[i]
             /\ \A i \in 1..Len(supported.value_type) :
                    IsFirstOccurring(supported.value_type, i, prompt')
                       => user_settings'["value_type"] = supported.value_type[i]
             /\ ~Matches(supported.value_type, prompt')
                  => \A k \in DOMAIN user_settings' \cap {"value_type"} :
                        user_settings'[k] =
                           IF k \in DOMAIN user_settings THEN user_settings[k] ELSE Average
             /\ ~Matches(supported.species, prompt')
                  => \A k \in DOMAIN user_settings' \cap {"species"} :
                        user_settings'[k] =
                           IF k \in DOMAIN user_settings THEN user_settings[k] ELSE Mice]_vars

\* "mice" occurs first in the text, "rats" is first in the list: rats wins,
\* and the value type set earlier stays
C7_Witness ==
    /\ op = "resolve"
    /\ supported.species = <<Rats, Rat, Mice>>
    /\ prompt = Mice \o <<"R", "a", "t", "s">>
    /\ "species" \in DOMAIN user_settings /\ user_settings["species"] = Rats
    /\ "value_type" \in DOMAIN user_settings /\ user_settings["value_type"] = Max

(***************************************************************************)
(* extract_markdown_table (app.py)                                          *)
(*   re.search(r'(\|.*\|[\r\n]+)((?:\|.*\|[\r\n]?)+)', markdown_text)        *)
(* Positions are 1-based; an end position is the index after the match.     *)
(***************************************************************************)

\* the class [\r\n]
IsNL(c) == c \in {"\r", "\n"}

\* `.*` from position p, taken greedily: the last position it can cover
\* (`.` matches every character but "\n")
RECURSIVE DotStarEnd(_, _)
DotStarEnd(t, p) == IF p <= Len(t) /\ t[p] # "\n" THEN DotStarEnd(t, p + 1) ELSE p - 1

\* the number of [\r\n] characters from position p on
RECURSIVE NLRun(_, _)
NLRun(t, p) == IF p <= Len(t) /\ IsNL(t[p]) THEN 1 + NLRun(t, p + 1) ELSE 0

SetMax(S) == CHOOSE x \in S : \A y \in S : y <= x

\* one iteration of (?:\|.*\|[\r\n]?) at p: the end of the alternative the
\* matcher tries first (longest `.*`, then the optional line break taken),
\* 0 when the iteration cannot match
Piece(t, p) ==
    IF p > Len(t) \/ t[p] # "|" THEN 0
    ELSE LET closing == {q \in (p + 1)..DotStarEnd(t, p + 1) : t[q] = "|"} IN
         IF closing = {} THEN 0
         ELSE LET q == SetMax(closing) IN
              IF q + 1 <= Len(t) /\ IsNL(t[q + 1]) THEN q + 2 ELSE q + 1

\* (?:...)+ at p, greedy: iterations are added while one matches
RECURSIVE Group2End(_, _)
Group2End(t, p) ==
    LET e == Piece(t, p) IN
    IF e = 0 THEN 0
    ELSE LET r == Group2End(t, e) IN IF r = 0 THEN e ELSE r

\* the whole pattern at start position i: the end of the first alternative
\* that succeeds in the matcher's order (closing pipe of the header as far
\* right as possible, then the longest run of line breaks), 0 for no match
MatchAt(t, i) ==
    IF t[i] # "|" THEN 0
    ELSE LET ok(q, m) == Group2End(t, q + 1 + m) # 0
             closing == {q \in (i + 1)..DotStarEnd(t, i + 1) :
                            t[q] = "|" /\ \E m \in 1..NLRun(t, q + 1) : ok(q, m)}
         IN  IF closing = {} THEN 0
             ELSE LET q == SetMax(closing)
                      m == SetMax({k \in 1..NLRun(t, q + 1) : ok(q, k)})
                  IN  Group2End(t, q + 1 + m)

SearchStart_MatchOnly(t) == IF t # <<>> /\ MatchAt(t, 1) # 0 THEN 1 ELSE 0

\* re.search: the leftmost start position with a match, 0 for none
SearchStart(t) ==
    LET starts == {i \in 1..Len(t) : MatchAt(t, i) # 0} IN
    IF starts = {} THEN 0 ELSE CHOOSE i \in starts : \A j \in starts : i <= j

\* str.split(sep) for a one-character sep
RECURSIVE Split(_, _)
Split(s, sep) ==
    IF \A i \in 1..Len(s) : s[i] # sep THEN <<s>>
    ELSE LET k == CHOOSE i \in 1..Len(s) : s[i] = sep /\ \A j \in 1..(i - 1) : s[j] # sep
         IN  <<SubSeq(s, 1, k - 1)>> \o Split(SubSeq(s, k + 1, Len(s)), sep)

\* sep.join(parts)
RECURSIVE Join(_, _)
Join(parts, sep) ==
    IF parts = <<>> THEN <<>>
    ELSE IF Len(parts) = 1 THEN Head(parts)
    ELSE Head(parts) \o <<sep>> \o Join(Tail(parts), sep)

\* "\n".join([line.strip() for line in table_str.strip().split('\n')])
CleanTable(table_str) ==
    LET lines == Split(Strip(table_str), "\n") IN
    Join([k \in 1..Len(lines) |-> Strip(lines[k])], "\n")

extract_markdown_table(markdown_text) ==
    LET i == SearchStart(markdown_text) IN
    IF i = 0 THEN NoStr
    ELSE Str(CleanTable(SubSeq(markdown_text, i, MatchAt(markdown_text, i) - 1)))

(***************************************************************************)
(* PlottingTools (plotting_tools.py)                                        *)
(* A data_string is the sequence of its lexical tokens.                     *)
(***************************************************************************)

\* tokens that are Python literals: numbers and quoted strings
NumberLiterals == {"22.9", "22.0", "19.0"}
StringLiterals == {"'Rapamycin'", "'Acarbose'", "'n/a'"}
Punctuation == {"[", "]", "(", ")", ",", "\n"}

IsLiteral(tok) == tok \in NumberLiterals \cup StringLiterals
\* any other word is a bare name: it parses, and literal_eval rejects it
IsName(tok) == ~IsLiteral(tok) /\ tok \notin Punctuation

PyAtom(tok) == [t |-> "atom", v |-> tok, items |-> <<>>]
PyName(tok) == [t |-> "name", v |-> tok, items |-> <<>>]
PyList(items) == [t |-> "list", v |-> "", items |-> items]
PyTuple(items) == [t |-> "tuple", v |-> "", items |-> items]

ParseFail(p) == [ok |-> FALSE, val |-> PyAtom(""), next |-> p, comma |-> FALSE]

RECURSIVE ParseValue(_, _)
RECURSIVE ParseItems(_, _, _, _)

\* the elements of a display up to its closing bracket, from position p;
\* comma tells whether a comma was read
ParseItems(toks, p, close, acc) ==
    IF p > Len(toks) THEN ParseFail(p)
    ELSE IF toks[p] = close
    THEN [ok |-> TRUE, val |-> PyList(acc), next |-> p + 1, comma |-> FALSE]
    ELSE LET v == ParseValue(toks, p) IN
         IF ~v.ok \/ v.next > Len(toks) THEN ParseFail(p)
         ELSE IF toks[v.next] = close
         THEN [ok |-> TRUE, val |-> PyList(Append(acc, v.val)), next |-> v.next + 1,
               comma |-> acc # <<>>]
         ELSE IF toks[v.next] = ","
         THEN LET r == ParseItems(toks, v.next + 1, close, Append(acc, v.val)) IN
              IF r.ok THEN [r EXCEPT !.comma = TRUE] ELSE r
         ELSE ParseFail(p)

\* one expression from position p
ParseValue(toks, p) ==
    IF p > Len(toks) THEN ParseFail(p)
    ELSE IF toks[p] = "["
    THEN ParseItems(toks, p + 1, "]", <<>>)
    ELSE IF toks[p] = "("
    THEN LET r == ParseItems(toks, p + 1, ")", <<>>) IN
         IF ~r.ok THEN r
         ELSE IF Len(r.val.items) = 1 /\ ~r.comma
         THEN [r EXCEPT !.val = r.val.items[1]]
         ELSE [r EXCEPT !.val = PyTuple(r.val.items)]
    ELSE IF IsLiteral(toks[p])
    THEN [ok |-> TRUE, val |-> PyAtom(toks[p]), next |-> p + 1, comma |-> FALSE]
    ELSE IF IsName(toks[p])
    THEN [ok |-> TRUE, val |-> PyName(toks[p]), next |-> p + 1, comma |-> FALSE]
    ELSE ParseFail(p)

RECURSIVE HasName(_)
HasName(v) == v.t = "name" \/ \E i \in 1..Len(v.items) : HasName(v.items[i])

\* ast.literal_eval: the value, or the exception it raises
literal_eval(toks) ==
    LET r == ParseValue(toks, 1) IN
    IF ~r.ok \/ r.next # Len(toks) + 1 THEN [raised |-> "SyntaxError", val |-> PyAtom("")]
    ELSE IF HasName(r.val) THEN [raised |-> "ValueError", val |-> PyAtom("")]
    ELSE [raised |-> "none", val |-> r.val]

NoFrame == [isNone |-> TRUE, ncols |-> 0, rows |-> <<>>]

\* pd.DataFrame(data_list, columns=col_names): shorter tuples are padded with
\* None; a tuple longer than the column list raises ValueError
DataFrame(data_list, num_cols) ==
    IF \E i \in 1..Len(data_list) : Len(data_list[i].items) > num_cols
    THEN [raised |-> "ValueError", df |-> NoFrame]
    ELSE [raised |-> "none",
          df |-> [isNone |-> FALSE, ncols |-> num_cols,
                  rows |-> [i \in 1..Len(data_list) |->
                              [c \in 1..num_cols |->
                                  IF c <= Len(data_list[i].items)
                                  THEN data_list[i].items[c].v ELSE "None"]]]]

\* PlottingTools._prepare_data: the frame, or None for an error it catches
\* (ValueError, SyntaxError, IndexError)
_prepare_data(toks) ==
    LET e == literal_eval(toks) IN
    IF e.raised # "none" THEN NoFrame
    ELSE IF e.val.t # "list" \/ \E i \in 1..Len(e.val.items) : e.val.items[i].t # "tuple"
    THEN NoFrame
    ELSE LET data_list == e.val.items
             num_cols == IF data_list # <<>> THEN Len(data_list[1].items) ELSE 0
         IN  DataFrame(data_list, num_cols).df

MsgInvalidFormat == "Error: Data for plotting was in an invalid format."

\* pd.to_numeric(errors='coerce').fillna(0), in tenths
ToNumeric(cell) ==
    CASE cell = "22.9" -> 229 [] cell = "22.0" -> 220 [] cell = "19.0" -> 190 [] OTHER -> 0

\* df.sort_values(by=y_col, ascending=True)
RECURSIVE SortByY(_)
SortByY(rows) ==
    IF rows = <<>> THEN <<>>
    ELSE LET k == CHOOSE i \in 1..Len(rows) :
                    /\ \A j \in 1..Len(rows) : rows[i][2] <= rows[j][2]
                    /\ \A j \in 1..(i - 1) : rows[j][2] # rows[i][2]
         IN  <<rows[k]>> \o SortByY([i \in 1..(Len(rows) - 1) |->
                                        IF i < k THEN rows[i] ELSE rows[i + 1]])

PNGMagic == <<137, 80, 78, 71, 13, 10, 26, 10>>

Returned(v) == [raised |-> "none", type |-> v.type, text |-> v.text, png |-> v.png]
Raises(e) == [raised |-> e, type |-> "none", text |-> "", png |-> <<>>]
ErrorString(m) == Returned([type |-> "str", text |-> m, png |-> <<>>])
\* buf.getvalue() after plt.savefig(buf, format='png'): the signature and the
\* marks drawn
PngBytes(marks) == Returned([type |-> "bytes", text |-> "", png |-> <<PNGMagic, marks>>])

\* df.columns = [x_col, y_col]: pandas raises ValueError (length mismatch)
\* unless the frame has two columns
create_bar_chart(toks) ==
    LET df == _prepare_data(toks) IN
    IF df.isNone THEN ErrorString(MsgInvalidFormat)
    ELSE IF df.ncols # 2 THEN Raises("ValueError")
    ELSE PngBytes(SortByY([i \in 1..Len(df.rows) |->
                              <<df.rows[i][1], ToNumeric(df.rows[i][2])>>]))

create_scatter_plot(toks) ==
    LET df == _prepare_data(toks) IN
    IF df.isNone THEN ErrorString(MsgInvalidFormat)
    ELSE IF df.ncols # 2 THEN Raises("ValueError")
    ELSE PngBytes([i \in 1..Len(df.rows) |->
                      <<ToNumeric(df.rows[i][1]), ToNumeric(df.rows[i][2])>>])

MaxTuples == 2

TupleChoices ==
    { <<"'Rapamycin'">>, <<"'Rapamycin'", "22.9">>, <<"'Acarbose'", "22.0">>,
      <<"'Acarbose'", "'n/a'">>, <<"22.0", "19.0">>, <<"'Rapamycin'", "22.9", "19.0">> }

RECURSIVE TupleLists(_)
TupleLists(n) ==
    IF n = 0 THEN {<<>>}
    ELSE TupleLists(n - 1) \cup {Append(l, t) : l \in TupleLists(n - 1), t \in TupleChoices}

\* the data strings of the model: renderings of lists of tuples, of other
\* values, and text that is no Python literal
DataStrings ==
    {ListStr(l) : l \in TupleLists(MaxTuples)}
      \cup {SubSeq(ListStr(l), 1, Len(ListStr(l)) - 1) : l \in TupleLists(1)}
      \cup {TupleStr(t) : t \in TupleChoices}
      \cup { <<>>, <<"22.9">>, <<"nan">>, <<"[", "22.9", ",", "22.0", "]">>,
             <<"[", "(", ")", "]">>, <<"[", "nan", "]">>,
             <<"[", "(", "'Rapamycin'", ",", "22.9", ")", ",", "]">>,
             <<"compound_name", "\n", "Rapamycin", "22.9">> }

InitPlot ==
    /\ data_string \in DataStrings
    /\ plot = [kind |-> "none"]
    /\ op = "none"
    /\ DBIdle /\ CtxIdle /\ ChartIdle

CreateBarChart ==
    /\ plot' = [kind |-> "bar", out |-> create_bar_chart(data_string)]
    /\ op' = "create_bar_chart"
    /\ UNCHANGED <<data_string, dbVars, ctxVars, chartVars>>

CreateScatterPlot ==
    /\ plot' = [kind |-> "scatter", out |-> create_scatter_plot(data_string)]
    /\ op' = "create_scatter_plot"
    /\ UNCHANGED <<data_string, dbVars, ctxVars, chartVars>>

NextPlot == CreateBarChart \/ CreateScatterPlot

SpecPlot == InitPlot /\ [][NextPlot]_vars

(***************************************************************************)
(* Claims about PlottingTools (checked under SpecPlot)                      *)
(***************************************************************************)

\* the data string is the literal of a list of tuples that all have two
\* elements, and of at least one
IsTwoColumnData(toks) ==
    LET e == literal_eval(toks) IN
    /\ e.raised = "none" /\ e.val.t = "list" /\ e.val.items # <<>>
    /\ \A i \in 1..Len(e.val.items) :
          e.val.items[i].t = "tuple" /\ Len(e.val.items[i].items) = 2

\* C10 as stated: for data that is not a non-empty list of two-element
\* tuples (unparseable text, another kind of value, an empty list, a tuple
\* of another arity) both chart functions return an error string: they
\* raise nothing and return no image bytes.
C10_AsStated ==
    (plot.kind # "none" /\ ~IsTwoColumnData(data_string))
        => (plot.out.raised = "none" /\ plot.out.type = "str")

(***************************************************************************)
(* The chart step of the turn handler (app.py, `if final_markdown:` on)     *)
(***************************************************************************)

\* the lines the CSV reader sees: "\r" ends a line as "\n" does, and blank
\* lines are skipped
CsvLines(ts) ==
    LET unified == [i \in 1..Len(ts) |-> IF ts[i] = "\r" THEN "\n" ELSE ts[i]]
        IsLine(l) == l # <<>>
    IN  SelectSeq(Split(unified, "\n"), IsLine)

DigitStr == <<"0", "1", "2", "3", "4", "5", "6", "7", "8", "9">>

\* the name pandas gives a column whose header field is empty
Unnamed(c) == <<"Unnamed: ", DigitStr[c]>>

\* a field pandas parses as a number (surrounding blanks are allowed)
IsNumberText(field) == Len(Strip(field)) = 1 /\ Strip(field)[1] \in NumberLiterals

\* the words of DataFrame.to_string()
Words_of(field) == LET NotSpace(c) == ~IsSpace(c) IN SelectSeq(field, NotSpace)

RECURSIVE Flatten(_)
Flatten(ss) == IF ss = <<>> THEN <<>> ELSE Head(ss) \o Flatten(Tail(ss))

\* what the chart step came to; failure names what went wrong in it:
\* "read_csv" (the reader raised), "raised" (create_bar_chart raised),
\* "error_string" (create_bar_chart returned its error text), or "none"
ChartResult(step, columns, nrows, image, failure) ==
    [step |-> step, columns |-> columns, nrows |-> nrows, image |-> image,
     failure |-> failure]

\* what st.image does with a str that names no file, by Streamlit release:
\* the text is an image URL when urlparse gives it a scheme (for
\* "Error: Data for ..." the scheme is "error"), and no exception is raised;
\* or only http, https and data count as URL schemes, the text is opened as
\* a file, and the call raises
StImageOfStr(text) == {"url", "raises"}

\* image_bytes = plotter.create_bar_chart(...); st.image(image_bytes, ...)
\* inside try/except Exception: an exception of either call ends in
\* st.warning; bytes are shown; the handler does not test for a returned str
ShowImage(out, columns, nrows) ==
    IF out.raised # "none" THEN {ChartResult("warning", columns, nrows, <<>>, "raised")}
    ELSE IF out.type = "bytes" THEN {ChartResult("image", columns, nrows, out.png, "none")}
    ELSE {ChartResult(IF r = "raises" THEN "warning" ELSE "broken_image",
                      columns, nrows, <<>>, "error_string") : r \in StImageOfStr(out.text)}

\* pd.read_csv(io.StringIO(table_string), sep='|', index_col=1)
\*   .dropna(axis=1, how='all').iloc[1:], the column test and the chart call:
\* the set of outcomes (two where the reader's treatment of a row with more
\* fields than the header is not determined here)
ChartSteps(ts) ==
    LET lines == CsvLines(ts)
        header == Split(lines[1], "|")
        ncols == Len(header)
        fields == [i \in 1..(Len(lines) - 1) |-> Split(lines[i + 1], "|")]
        cell(i, c) == IF c <= Len(fields[i]) THEN fields[i][c] ELSE <<>>
        \* index_col=1 takes the second field out; dropna drops the all-empty columns
        Kept(c) == c # 2 /\ \E i \in 1..Len(fields) : cell(i, c) # <<>>
        cols == SelectSeq([c \in 1..ncols |-> c], Kept)
        name(c) == IF header[c] = <<>> THEN Unnamed(c) ELSE Strip(header[c])
        columns == [k \in 1..Len(cols) |-> name(cols[k])]
        \* the dtype is inferred from every data row, the one iloc drops included
        numeric(c) == \A i \in 1..Len(fields) : cell(i, c) = <<>> \/ IsNumberText(cell(i, c))
        nrows == IF Len(fields) = 0 THEN 0 ELSE Len(fields) - 1
        to_string ==
            Flatten([k \in 1..Len(cols) |-> Words_of(columns[k])]) \o <<"\n">>
              \o Words_of(header[2]) \o <<"\n">>
              \o Flatten([i \in 1..nrows |->
                    Words_of(cell(i + 1, 2))
                      \o Flatten([k \in 1..Len(cols) |->
                            IF cell(i + 1, cols[k]) = <<>> THEN <<"NaN">>
                            ELSE Words_of(cell(i + 1, cols[k]))])
                      \o <<"\n">>])
    IN  IF \E i \in 1..Len(fields) : Len(fields[i]) > ncols
        THEN {ChartResult("warning", <<>>, 0, <<>>, "read_csv"),
              ChartResult("skipped", <<>>, 0, <<>>, "none")}
        ELSE IF Len(cols) >= 2 /\ numeric(cols[2])
        THEN ShowImage(create_bar_chart(to_string), columns, nrows)
        ELSE {ChartResult("skipped", columns, nrows, <<>>, "none")}

\* `if table_string:` -- None and the empty str attempt no chart
TableStep(ts) ==
    IF ts.isNone \/ ts.str = <<>> THEN {ChartResult("no_table", <<>>, 0, <<>>, "none")}
    ELSE ChartSteps(ts.str)

UserMessage(content) == [role |-> "user", content |-> content]
AssistantMessage(content) == [role |-> "assistant", content |-> content]

Effect(call, arg) == [call |-> call, arg |-> arg]

\* the calls of the chart step, in program order, for each way it can go
ChartEffects(c) ==
    LET read == <<Effect("pd.read_csv", "table_string")>>
        call == <<Effect("st.write", "### Chart Visualization"),
                  Effect("create_bar_chart", "df.to_string()")>>
        warn == <<Effect("st.warning", "Could not generate a plot from the data.")>>
    IN  CASE c.step = "no_table" -> <<>>
          [] c.step = "skipped" -> read
          [] c.step = "image" -> read \o call \o <<Effect("st.image", "bytes")>>
          [] c.step = "broken_image" -> read \o call \o <<Effect("st.image", "url")>>
          [] c.step = "warning" /\ c.failure = "read_csv" -> read \o warn
          [] c.step = "warning" /\ c.failure = "raised" -> read \o call \o warn
          [] c.step = "warning" /\ c.failure = "error_string" ->
                read \o call \o <<Effect("st.image", "raises")>> \o warn

\* the handler from the agent's response on: final_markdown is the content of
\* the response when that is a str, and "" when it is not (is_str)
HandleResponse ==
    /\ op = "none"
    /\ op' = "handle_response"
    /\ IF final_markdown = <<>>
       THEN /\ table_string' = NoStr
            /\ chart' = ChartResult("no_response", <<>>, 0, <<>>, "none")
            /\ messages' = messages
            /\ \E is_str \in BOOLEAN :
                  effects' = IF is_str THEN <<>>
                             ELSE <<Effect("st.error", "unexpected response format"),
                                    Effect("st.write", "response_object")>>
       ELSE /\ table_string' = extract_markdown_table(final_markdown)
            /\ chart' \in TableStep(table_string')
            /\ messages' = Append(messages, AssistantMessage(final_markdown))
            /\ effects' = <<Effect("st.markdown", final_markdown),
                            Effect("messages.append", AssistantMessage(final_markdown)),
                            Effect("extract_markdown_table", "final_markdown")>>
                            \o ChartEffects(chart')
    /\ turn' = "completed"
    /\ UNCHANGED <<final_markdown, dbVars, ctxVars, plotVars>>

NextTurn == HandleResponse

(***************************************************************************)
(* The state in which a response is handled                                 *)
(***************************************************************************)

Question == <<"Show top 5 drugs for mice">>

\* the history when the response arrives: the user message of this turn was
\* appended at the start of the turn, after any earlier exchange
Histories ==
    { <<UserMessage(Question)>>,
      <<UserMessage(Question), AssistantMessage(<<"No", " ", "results", ".">>),
        UserMessage(Question)>> }

TurnStart ==
    /\ table_string = NoStr
    /\ chart = [step |-> "none"]
    /\ messages \in Histories
    /\ effects = <<>>
    /\ turn = "none"
    /\ op = "none"

(***************************************************************************)
(* Response texts over a small alphabet                                     *)
(***************************************************************************)

MaxLen == 6

TextChars == {"|", "a", "\n", "\r"}

RECURSIVE CharTexts(_)
CharTexts(n) ==
    IF n = 0 THEN {<<>>}
    ELSE CharTexts(n - 1) \cup {Append(t, c) : t \in CharTexts(n - 1), c \in TextChars}

InitExtract ==
    /\ final_markdown \in CharTexts(MaxLen)
    /\ TurnStart
    /\ DBIdle /\ CtxIdle /\ PlotIdle

SpecExtract == InitExtract /\ [][NextTurn]_vars

(***************************************************************************)
(* Response texts that hold a markdown table; a word stands for a run of    *)
(* characters that are neither "|" nor blank                                *)
(***************************************************************************)

MaxTableRows == 2

MdCell(x) == <<" ", x, " ">>
MdLine(cells) == <<"|">> \o Join([i \in 1..Len(cells) |-> MdCell(cells[i])], "|") \o <<"|">>

\* header row, separator row (when sep), data rows
MdTable(header, sep, rows) ==
    Join(<<MdLine(header)>>
           \o (IF sep THEN <<MdLine([i \in 1..Len(header) |-> "---"])>> ELSE <<>>)
           \o [i \in 1..Len(rows) |-> MdLine(rows[i])], "\n")

Header2 == <<"compound_name", "avg_lifespan_change_percent">>
Header3 == <<"compound_name", "avg_lifespan_change_percent", "max_lifespan_change_percent">>

Rows2 == {<<n, v>> : n \in {"Rapamycin", "Acarbose"}, v \in {"22.9", "22.0"}}
Rows3 == {<<n, v, "19.0">> : n \in {"Rapamycin", "Acarbose"}, v \in {"22.9", "n/a"}}

RECURSIVE RowLists(_, _)
RowLists(R, n) ==
    IF n = 0 THEN {}
    ELSE IF n = 1 THEN {<<r>> : r \in R}
    ELSE RowLists(R, n - 1) \cup {Append(l, r) : l \in RowLists(R, n - 1), r \in R}

Narrative == {<<>>, <<"Results", ":", "\n", "\n">>}

\* a well-formed two-column table: header, separator, data rows with a
\* numeric second column
WellFormedTwoColumn(pre, rows) == pre \o MdTable(Header2, TRUE, rows)

TableTexts ==
    {WellFormedTwoColumn(pre, rows) : pre \in Narrative, rows \in RowLists(Rows2, MaxTableRows)}
      \cup {pre \o MdTable(Header2, FALSE, rows) :
                pre \in Narrative, rows \in RowLists(Rows2, MaxTableRows)}
      \cup {MdTable(Header3, sep, rows) :
                sep \in BOOLEAN, rows \in RowLists(Rows3, MaxTableRows)}
      \cup {<<"No", " ", "results", ".">>}

InitTable ==
    /\ final_markdown \in TableTexts
    /\ TurnStart
    /\ DBIdle /\ CtxIdle /\ PlotIdle

SpecTable == InitTable /\ [][NextTurn]_vars

(***************************************************************************)
(* Claims about extract_markdown_table (checked under SpecExtract) and the  *)
(* table-to-chart round trip (checked under SpecTable)                      *)
(***************************************************************************)

Handled == op = "handle_response"

\* no "\n" in t[lo..hi]
OneLine(t, lo, hi) == \A k \in lo..hi : t[k] # "\n"

\* at position i: a `|`, a later `|` with no line feed between, then one or
\* more CR/LF characters, then again a `|` and a later `|` with no line feed
\* between
TableShapeAt(t, i) ==
    /\ t[i] = "|"
    /\ \E q \in (i + 1)..Len(t) : \E p \in (q + 2)..Len(t) : \E r \in (p + 1)..Len(t) :
          /\ t[q] = "|" /\ OneLine(t, i + 1, q - 1)
          /\ \A k \in (q + 1)..(p - 1) : IsNL(t[k])
          /\ t[p] = "|" /\ t[r] = "|" /\ OneLine(t, p + 1, r - 1)

HasTableShape(t) == \E i \in 1..Len(t) : TableShapeAt(t, i)

\* a line that begins and ends with a pipe
PipeDelimited(l) == Len(l) >= 2 /\ l[1] = "|" /\ l[Len(l)] = "|"

HasPipe(l) == \E k \in 1..Len(l) : l[k] = "|"

\* C8 as stated: a table block is returned exactly when some line with at
\* least one `|` is immediately followed by a pipe-delimited line.
C8_AsStated ==
    Handled =>
        (~table_string.isNone <=>
            LET lines == Split(final_markdown, "\n") IN
            \E k \in 1..(Len(lines) - 1) : HasPipe(lines[k]) /\ PipeDelimited(lines[k + 1]))

\* C8 amended: a block is returned exactly when the text contains a segment
\* from a `|` to a later `|` on the same line, directly followed by one or
\* more CR/LF characters, directly followed by another segment from a `|` to
\* a later `|` on one line. The block begins at the first `|` that starts
\* such a pattern, each of its lines is trimmed and is empty or begins and
\* ends with `|`. Otherwise the result is None, nothing is raised and no
\* chart is attempted; a text without `|` yields None.
C8_ExtractsFirstTable ==
    Handled =>
        /\ ~table_string.isNone <=> HasTableShape(final_markdown)
        /\ ~HasPipe(final_markdown) => table_string.isNone
        /\ table_string.isNone => chart.step \in {"no_table", "no_response"}
        /\ ~table_string.isNone =>
              LET first == CHOOSE i \in 1..Len(final_markdown) :
                              /\ TableShapeAt(final_markdown, i)
                              /\ \A j \in 1..(i - 1) : ~TableShapeAt(final_markdown, j)
                  lines == Split(table_string.str, "\n")
              IN  /\ \E e \in first..Len(final_markdown) :
                        table_string.str = CleanTable(SubSeq(final_markdown, first, e))
                  /\ \A k \in 1..Len(lines) :
                        lines[k] = <<>> \/ (lines[k][1] = "|" /\ lines[k][Len(lines[k])] = "|")
                  /\ chart.step \notin {"no_table", "no_response"}

\* text before the table, and a line after it that is not part of it
C8_Witness ==
    /\ Handled
    /\ final_markdown = <<"a", "|", "|", "\n", "|", "|">>
    /\ table_string = Str(<<"|", "|", "\n", "|", "|">>)

\* C9 as stated: for a well-formed two-column table the parsed table has the
\* two column names as its header and one row per markdown data row, and
\* the bar chart is rendered: non-empty PNG bytes, not an error string, not
\* a skipped chart.
C9_AsStated ==
    Handled =>
        \A pre \in Narrative : \A rows \in RowLists(Rows2, MaxTableRows) :
            final_markdown = WellFormedTwoColumn(pre, rows)
              => /\ chart.columns = << <<Header2[1]>>, <<Header2[2]>> >>
                 /\ chart.nrows = Len(rows)
                 /\ chart.step = "image"
                 /\ chart.image # <<>> /\ chart.image[1] = PNGMagic

(***************************************************************************)
(* Claim about the turn handler and chart failures (checked under           *)
(* SpecTable)                                                               *)
(***************************************************************************)

\* the calls that belong to the chart work of a turn
ChartWork ==
    {"extract_markdown_table", "pd.read_csv", "st.write", "create_bar_chart",
     "st.image", "st.warning"}

\* C11 as stated: in every turn with a non-empty response text the answer is
\* displayed and appended to the history before any chart work starts, the
\* turn runs to its end, and every failure of the chart step (an exception
\* raised, or the error string returned by create_bar_chart) ends with no
\* image element shown and a warning shown.
C11_AsStated ==
    (Handled /\ final_markdown # <<>>) =>
        /\ turn = "completed"
        /\ Len(effects) >= 2
        /\ effects[1].call = "st.markdown" /\ effects[1].arg = final_markdown
        /\ effects[2].call = "messages.append"
        /\ \A i \in 3..Len(effects) : effects[i].call \in ChartWork
        /\ messages # <<>>
        /\ messages[Len(messages)] = AssistantMessage(final_markdown)
        /\ chart.failure # "none" =>
              /\ \A i \in 1..Len(effects) :
                    effects[i].call = "st.image" => effects[i].arg = "raises"
              /\ \E i \in 1..Len(effects) : effects[i].call = "st.warning"

(***************************************************************************)
(* Claim about the logging of run_sql_query (checked under SpecDB)          *)
(***************************************************************************)

\* a record of the latest call carries the query text
LogsQuery(q) ==
    \E i \in 1..Len(log) :
        log[i].msg[1] \in {"Executing query: ", "Query failed: "} /\ log[i].msg[2] = q

\* a record of the latest call carries the row count
LogsRowCount(n) ==
    \E i \in 1..Len(log) : log[i].msg[1] = "Query returned " /\ log[i].msg[2] = n

\* a record of the latest call reports an error
LogsError == \E i \in 1..Len(log) : log[i].level = "ERROR"

\* C12 as stated: every call of run_sql_query emits a log record; a call that
\* succeeds logs the query text and the number of rows, zero for an empty
\* result; a call that fails (engine not initialised, policy violation,
\* connection or execution error) logs the error.
C12_AsStated ==
    Called =>
        /\ log # <<>>
        /\ IsFailureText(ret) => LogsError
        /\ ~IsFailureText(ret) =>
              /\ LogsQuery(query)
              /\ LogsRowCount(IF ret = MsgNoResults THEN 0
                              ELSE Len(SqlExecute(query, db).rows))

====
